---------------------------- MODULE Spec2Model ----------------------------
(***************************************************************************)
(* Model of the text-similarity (plagiarism check) program.                *)
(*                                                                         *)
(*   src/3223004469/main.py  the optimised pipeline: LRU-cached            *)
(*                           segmentation, one global TfidfVectorizer, the *)
(*                           tiered fallback policy, the batch entry point *)
(*                           and the command-line main                     *)
(*   src/main.py             the plain pipeline: uncached segmentation, a  *)
(*                           fresh vectorizer per call, its own main       *)
(*                                                                         *)
(* A text is a sequence of one-character strings.  A score is an integer   *)
(* number of thousandths (1000 is 1.0), truncated.  The three library      *)
(* calls are modelled by what they do on the model's alphabet:             *)
(*   jieba.lcut       a run of ASCII letters is one token, every other     *)
(*                    character (white space included) is a token of its   *)
(*                    own; the tokens concatenate to the text              *)
(*   TfidfVectorizer  lowercase, terms are the runs of two or more word    *)
(*                    characters, smooth idf ln((1+n)/(1+df))+1 kept in    *)
(*                    tenths, cosine of the tf*idf rows                    *)
(*   SequenceMatcher  longest matching block (earliest in a, then earliest *)
(*                    in b), recursively left and right, ratio 2M/T        *)
(* The texts of the model are shorter than 200 characters, so              *)
(* SequenceMatcher's autojunk heuristic never applies.                     *)
(***************************************************************************)
EXTENDS Integers, Sequences, FiniteSets, TLC

VARIABLES
    cache,       \* the entries of lru_cache, least recently used first
    vectorizer,  \* the module-level _vectorizer
    files,       \* the file system: path -> content
    calls,       \* the calls made so far (the scripted runs) or the last one (Spec)
    script,      \* the inputs a scripted run was started with
    pc           \* the position of a scripted run

vars == <<cache, vectorizer, files, calls, script, pc>>

-----------------------------------------------------------------------------
(* Bounds of the model *)

\* a text of the pair specification is a concatenation of at most MaxPieces pieces
MaxPieces == 3

\* the stateful specifications use the first NumDocs documents of DocList
NumDocs == 4

\* a batch has at most MaxPairs pairs
MaxPairs == 2

\* command lines have at most MaxArgc entries in sys.argv
MaxArgc == 5

\* lru_cache(maxsize=1000), scaled down so that evictions happen
maxsize == 2

\* the cache specification makes at most MaxCalls calls
MaxCalls == 5

-----------------------------------------------------------------------------
(* Characters and texts *)

\* Python's None where a text is expected: a value that is no text
None == <<"None">>

IsSpace(c) == c = " "

IsWord(c) == c \in {"a", "b", "A", "B"}

Lower(c) == IF c = "A" THEN "a" ELSE IF c = "B" THEN "b" ELSE c

Pieces == {<<"a">>, <<" ">>, <<"a", "b">>, <<"b", "a">>}

RECURSIVE Concat(_)
Concat(ss) == IF ss = <<>> THEN <<>> ELSE Head(ss) \o Concat(Tail(ss))

Texts == {Concat(ps) : ps \in UNION {[1..n -> Pieces] : n \in 0..MaxPieces}}

Min(x, y) == IF x < y THEN x ELSE y

-----------------------------------------------------------------------------
(* jieba.lcut and the two string conversions around it *)

Flush(out, buf) == IF buf = <<>> THEN out ELSE Append(out, buf)

RECURSIVE LcutFrom(_, _, _, _)
LcutFrom(text, i, buf, out) ==
    IF i > Len(text) THEN Flush(out, buf)
    ELSE IF IsWord(text[i])
         THEN LcutFrom(text, i + 1, Append(buf, text[i]), out)
         ELSE LcutFrom(text, i + 1, <<>>, Append(Flush(out, buf), <<text[i]>>))

\* jieba.lcut(text): the list of tokens
jieba_lcut(text) == LcutFrom(text, 1, <<>>, <<>>)

\* " ".join(words)
RECURSIVE Join(_)
Join(words) ==
    IF words = <<>> THEN <<>>
    ELSE IF Len(words) = 1 THEN Head(words)
         ELSE Head(words) \o <<" ">> \o Join(Tail(words))

RECURSIVE SplitOnSpaceFrom(_, _, _, _)
SplitOnSpaceFrom(s, i, buf, out) ==
    IF i > Len(s) THEN Append(out, buf)
    ELSE IF IsSpace(s[i])
         THEN SplitOnSpaceFrom(s, i + 1, <<>>, Append(out, buf))
         ELSE SplitOnSpaceFrom(s, i + 1, Append(buf, s[i]), out)

\* Split as str.split(" ") would do it: empty strings between adjacent spaces
SplitOnSpace(s) == IF s = <<>> THEN <<>> ELSE SplitOnSpaceFrom(s, 1, <<>>, <<>>)

RECURSIVE SplitFrom(_, _, _, _)
SplitFrom(s, i, buf, out) ==
    IF i > Len(s) THEN Flush(out, buf)
    ELSE IF IsSpace(s[i])
         THEN SplitFrom(s, i + 1, <<>>, Flush(out, buf))
         ELSE SplitFrom(s, i + 1, Append(buf, s[i]), out)

\* str.split(): the maximal runs of characters that are not white space
Split(s) == SplitFrom(s, 1, <<>>, <<>>)

\* preprocess_text of src/main.py, which segments on every call; "not text"
\* holds of "" and of None
plain_preprocess_text(text) ==
    IF text = <<>> \/ text = None THEN <<>> ELSE Join(jieba_lcut(text))

\* the body of cached_preprocess_text, run on a cache miss
SegmentBody(text) ==
    IF text = <<>> THEN <<>> ELSE Join(jieba_lcut(text))

-----------------------------------------------------------------------------
(* functools.lru_cache around cached_preprocess_text.  The cache is the    *)
(* sequence of its entries, least recently used first.                     *)

\* CacheIndex that trusts a hash of the key (here its first character, its
\* length for "") without comparing the keys themselves
CacheIndexByHash(c, text) ==
    LET Hash(t) == IF t = <<>> THEN "" ELSE Head(t) IN
    IF \E i \in 1..Len(c) : Hash(c[i].key) = Hash(text)
    THEN CHOOSE i \in 1..Len(c) : Hash(c[i].key) = Hash(text)
    ELSE 0

CacheIndex(c, text) ==
    IF \E i \in 1..Len(c) : c[i].key = text
    THEN CHOOSE i \in 1..Len(c) : c[i].key = text
    ELSE 0

Remove(s, i) == SubSeq(s, 1, i - 1) \o SubSeq(s, i + 1, Len(s))

\* one call: [cache |-> the cache afterwards, ret |-> the value, hit |-> ...]
cached_preprocess_text(c, text) ==
    LET i == CacheIndex(c, text) IN
    IF i > 0
    THEN [cache |-> Append(Remove(c, i), c[i]), ret |-> c[i].val, hit |-> TRUE]
    ELSE LET v    == SegmentBody(text)
             kept == IF Len(c) >= maxsize THEN Tail(c) ELSE c
         IN [cache |-> Append(kept, [key |-> text, val |-> v]),
             ret |-> v, hit |-> FALSE]

preprocess_text(c, text) == cached_preprocess_text(c, text)

-----------------------------------------------------------------------------
(* difflib.SequenceMatcher(None, a, b).ratio() *)

RECURSIVE RunLen(_, _, _, _, _, _)
\* length of the common run of a[i..ahi] and b[j..bhi] that starts at i and j
RunLen(a, b, i, j, ahi, bhi) ==
    IF i > ahi \/ j > bhi THEN 0
    ELSE IF a[i] # b[j] THEN 0
         ELSE 1 + RunLen(a, b, i + 1, j + 1, ahi, bhi)

Longer(best, i, j, k) == IF k > best[3] THEN <<i, j, k>> ELSE best

RECURSIVE ScanMatches(_, _, _, _, _, _, _, _, _)
\* the scan of find_longest_match over the starts (i, j), i first
ScanMatches(a, b, i, j, alo, ahi, blo, bhi, best) ==
    IF i > ahi THEN best
    ELSE IF j > bhi THEN ScanMatches(a, b, i + 1, blo, alo, ahi, blo, bhi, best)
         ELSE ScanMatches(a, b, i, j + 1, alo, ahi, blo, bhi,
                          Longer(best, i, j, RunLen(a, b, i, j, ahi, bhi)))

\* find_longest_match: <<i, j, k>>, the longest block, of those the one that
\* starts earliest in a, and of those the one that starts earliest in b
find_longest_match(a, b, alo, ahi, blo, bhi) ==
    ScanMatches(a, b, alo, blo, alo, ahi, blo, bhi, <<alo, blo, 0>>)

RECURSIVE MatchesAround(_, _, _, _, _, _, _)
RECURSIVE Matches(_, _, _, _, _, _)
\* get_matching_blocks: the total size of the matching blocks
Matches(a, b, alo, ahi, blo, bhi) ==
    IF alo > ahi \/ blo > bhi THEN 0
    ELSE MatchesAround(a, b, alo, ahi, blo, bhi,
                       find_longest_match(a, b, alo, ahi, blo, bhi))

\* the block m, then the blocks to its left and to its right
MatchesAround(a, b, alo, ahi, blo, bhi, m) ==
    IF m[3] = 0 THEN 0
    ELSE m[3] + Matches(a, b, alo, m[1] - 1, blo, m[2] - 1)
              + Matches(a, b, m[1] + m[3], ahi, m[2] + m[3], bhi)

\* ratio(): 2.0 * matches / (len(a) + len(b)), 1.0 when both are empty
ratio(a, b) ==
    IF Len(a) + Len(b) = 0 THEN 1000
    ELSE (2000 * Matches(a, b, 1, Len(a), 1, Len(b))) \div (Len(a) + Len(b))

-----------------------------------------------------------------------------
(* sklearn's TfidfVectorizer() with its defaults and cosine_similarity *)

RECURSIVE AnalyzeFrom(_, _, _, _)
AnalyzeFrom(doc, i, buf, out) ==
    LET done == IF Len(buf) >= 2 THEN Append(out, buf) ELSE out IN
    IF i > Len(doc) THEN done
    ELSE IF IsWord(doc[i])
         THEN AnalyzeFrom(doc, i + 1, Append(buf, Lower(doc[i])), out)
         ELSE AnalyzeFrom(doc, i + 1, <<>>, done)

\* build_analyzer(): lowercase, then token_pattern (?u)\b\w\w+\b
Analyze(doc) == AnalyzeFrom(doc, 1, <<>>, <<>>)

Range(terms) == {terms[i] : i \in 1..Len(terms)}

\* term frequency: how often t occurs among the terms of one document
Tf(t, terms) == Cardinality({i \in 1..Len(terms) : terms[i] = t})

\* 100 * ln(k) for k = 1..11
Ln100 == <<0, 69, 110, 139, 161, 179, 195, 208, 220, 230, 240>>

\* smooth_idf: ln((1 + n) / (1 + df)) + 1, in tenths, rounded
Idf(n, df) == (100 + Ln100[1 + n] - Ln100[1 + df] + 5) \div 10

\* the module-level _vectorizer before get_vectorizer() has run
NoVectorizer ==
    [created |-> FALSE, fitted |-> FALSE, vocabulary |-> {}, df |-> <<>>, n |-> 0]

\* TfidfVectorizer(): an instance that is not fitted
NewVectorizer ==
    [created |-> TRUE, fitted |-> FALSE, vocabulary |-> {}, df |-> <<>>, n |-> 0]

get_vectorizer(vec) == IF ~vec.created THEN NewVectorizer ELSE vec

\* the analysed documents: one sequence of terms per document
AnalyzeAll(docs) == [i \in 1..Len(docs) |-> Analyze(docs[i])]

Vocabulary(analysed) == UNION {Range(analysed[i]) : i \in 1..Len(analysed)}

\* Fit that adds the new counts to those of the fit before (a partial fit)
FitAccumulating(vec, analysed) ==
    LET vocab == vec.vocabulary \cup Vocabulary(analysed) IN
    [created |-> TRUE, fitted |-> TRUE, vocabulary |-> vocab,
     df |-> [t \in vocab |->
                (IF t \in vec.vocabulary THEN vec.df[t] ELSE 0)
                + Cardinality({i \in 1..Len(analysed) : t \in Range(analysed[i])})],
     n |-> vec.n + Len(analysed)]

\* fit: the vocabulary and the document frequencies of exactly these documents
Fit(vec, analysed) ==
    [created |-> TRUE, fitted |-> TRUE, vocabulary |-> Vocabulary(analysed),
     df |-> [t \in Vocabulary(analysed) |->
                Cardinality({i \in 1..Len(analysed) : t \in Range(analysed[i])})],
     n |-> Len(analysed)]

\* transform: one tf * idf row per document, over the fitted vocabulary
Transform(vec, analysed) ==
    [i \in 1..Len(analysed) |->
        [t \in vec.vocabulary |-> Tf(t, analysed[i]) * Idf(vec.n, vec.df[t])]]

NoFault == "none"
EmptyVocabulary == "ValueError: empty vocabulary"
OtherValueError == "ValueError: other"
OtherError      == "MemoryError"

\* what the environment can make a fit do besides what the docs decide
Faults == {NoFault, OtherValueError, OtherError}

FitTransformAnalysed(vec, analysed, fault) ==
    IF fault # NoFault
    THEN [raised |-> fault, vectorizer |-> vec, matrix |-> <<>>]
    ELSE IF Vocabulary(analysed) = {}
         THEN [raised |-> EmptyVocabulary, vectorizer |-> vec, matrix |-> <<>>]
         ELSE [raised |-> NoFault, vectorizer |-> Fit(vec, analysed),
               matrix |-> Transform(Fit(vec, analysed), analysed)]

\* vectorizer.fit_transform(docs): a failure leaves the instance as it was
fit_transform(vec, docs, fault) ==
    FitTransformAnalysed(vec, AnalyzeAll(docs), fault)

RECURSIVE SumOver(_, _, _)
\* the sum of u[t] * v[t] over the terms t of S
SumOver(S, u, v) ==
    IF S = {} THEN 0
    ELSE LET t == CHOOSE x \in S : TRUE IN u[t] * v[t] + SumOver(S \ {t}, u, v)

RECURSIVE ISqrtIn(_, _, _)
\* the largest r in lo..hi with r * r <= x
ISqrtIn(x, lo, hi) ==
    IF lo >= hi THEN lo
    ELSE LET mid == (lo + hi + 1) \div 2 IN
         IF mid * mid <= x THEN ISqrtIn(x, mid, hi) ELSE ISqrtIn(x, lo, mid - 1)

ISqrt(x) == ISqrtIn(x, 0, Min(x, 46340))

\* cosine_similarity without the square root of the norms' product
cosine_unnormalised(u, v) ==
    LET dot == SumOver(DOMAIN u, u, v)
        nu  == SumOver(DOMAIN u, u, u)
        nv  == SumOver(DOMAIN v, v, v)
    IN IF nu = 0 \/ nv = 0 THEN 0 ELSE (1000 * dot) \div (nu * nv)

\* cosine_similarity of two rows: a zero row has similarity 0 to everything
cosine_similarity(u, v) ==
    LET dot == SumOver(DOMAIN u, u, v)
        nu  == SumOver(DOMAIN u, u, u)
        nv  == SumOver(DOMAIN v, v, v)
    IN IF nu = 0 \/ nv = 0 THEN 0 ELSE (1000 * dot) \div ISqrt(nu * nv)

-----------------------------------------------------------------------------
(* calculate_similarity of src/3223004469/main.py.  The result is a record: *)
(* the cache and the vectorizer afterwards, the returned score (NoScore     *)
(* when the call raised), the exception that left the call, the branch      *)
(* taken, and what fit_transform did: NotFitted when it was not called,     *)
(* NoFault when it returned, else the exception it raised.                  *)

NoScore == 0 - 1

NotFitted == "not called"

Outcome(c, vec, ret, raised, path, fit_error) ==
    [cache |-> c, vectorizer |-> vec, ret |-> ret, raised |-> raised,
     path |-> path, fitted |-> fit_error # NotFitted, fit_error |-> fit_error]

\* SingleTokenScore with the ratio taken of the two words, not of the raw texts
SingleTokenScoreOfWords(original_words, copied_words, original_text, copied_text) ==
    IF original_words[1] = copied_words[1]
    THEN 1000
    ELSE ratio(original_words[1], copied_words[1])

\* lines 95-102: both sides have exactly one word
SingleTokenScore(original_words, copied_words, original_text, copied_text) ==
    IF original_words[1] = copied_words[1]
    THEN 1000
    ELSE ratio(original_text, copied_text)

\* VectorScore whose except clause falls back on every ValueError
VectorScoreCatchAll(c, vec, original_processed, copied_processed, original_text, copied_text, fault) ==
    LET ft == fit_transform(get_vectorizer(vec),
                            <<original_processed, copied_processed>>, fault)
    IN IF ft.raised = NoFault
       THEN Outcome(c, ft.vectorizer,
                    cosine_similarity(ft.matrix[1], ft.matrix[2]),
                    NoFault, "vector", NoFault)
       ELSE IF ft.raised \in {EmptyVocabulary, OtherValueError}
       THEN Outcome(c, ft.vectorizer, ratio(original_text, copied_text),
                    NoFault, "fallback", ft.raised)
       ELSE Outcome(c, ft.vectorizer, NoScore, ft.raised, "raised", ft.raised)

\* lines 104-118: the try block and its except clause
VectorScore(c, vec, original_processed, copied_processed, original_text, copied_text, fault) ==
    LET ft == fit_transform(get_vectorizer(vec),
                            <<original_processed, copied_processed>>, fault)
    IN IF ft.raised = NoFault
       THEN Outcome(c, ft.vectorizer,
                    cosine_similarity(ft.matrix[1], ft.matrix[2]),
                    NoFault, "vector", NoFault)
       ELSE IF ft.raised = EmptyVocabulary
       THEN Outcome(c, ft.vectorizer, ratio(original_text, copied_text),
                    NoFault, "fallback", ft.raised)
       ELSE Outcome(c, ft.vectorizer, NoScore, ft.raised, "raised", ft.raised)

calculate_similarity(c, vec, original_text, copied_text, fault) ==
    LET p1 == preprocess_text(c, original_text)
        p2 == preprocess_text(p1.cache, copied_text)
        original_processed == p1.ret
        copied_processed   == p2.ret
        original_words == Split(original_processed)
        copied_words   == Split(copied_processed)
        c2 == p2.cache
    IN
    IF original_processed = <<>> /\ copied_processed = <<>>
    THEN Outcome(c2, vec, 1000, NoFault, "both_empty", NotFitted)
    ELSE IF original_processed = <<>> \/ copied_processed = <<>>
    THEN Outcome(c2, vec, 0, NoFault, "one_empty", NotFitted)
    ELSE IF original_words = <<>> /\ copied_words = <<>>
    THEN Outcome(c2, vec, IF original_text = copied_text THEN 1000 ELSE 0,
                 NoFault, "no_words", NotFitted)
    ELSE IF original_words = <<>> \/ copied_words = <<>>
    THEN Outcome(c2, vec, 0, NoFault, "one_no_words", NotFitted)
    ELSE IF Len(original_words) = 1 /\ Len(copied_words) = 1
    THEN Outcome(c2, vec,
                 SingleTokenScore(original_words, copied_words,
                                  original_text, copied_text),
                 NoFault,
                 IF original_words[1] = copied_words[1]
                 THEN "single_equal" ELSE "single_ratio",
                 NotFitted)
    ELSE VectorScore(c2, vec, original_processed, copied_processed,
                     original_text, copied_text, fault)

-----------------------------------------------------------------------------
(* calculate_similarity_batch of src/3223004469/main.py *)

RECURSIVE PreprocessAll(_, _)
\* lines 131-133: every text of every pair through preprocess_text, in order
PreprocessAll(c, texts) ==
    IF texts = <<>> THEN [cache |-> c, all_texts |-> <<>>]
    ELSE LET p    == preprocess_text(c, Head(texts))
             rest == PreprocessAll(p.cache, Tail(texts))
         IN [cache |-> rest.cache, all_texts |-> <<p.ret>> \o rest.all_texts]

RECURSIVE Flatten(_)
Flatten(text_pairs) ==
    IF text_pairs = <<>> THEN <<>>
    ELSE <<Head(text_pairs)[1], Head(text_pairs)[2]>> \o Flatten(Tail(text_pairs))

RECURSIVE SimilaritiesStepOne(_, _)
\* Similarities with range(0, len(all_texts)): every row against the next one
SimilaritiesStepOne(matrix, i) ==
    IF i >= Len(matrix) THEN <<>>
    ELSE (IF i + 1 < Len(matrix)
          THEN <<cosine_similarity(matrix[i + 1], matrix[i + 2])>>
          ELSE <<>>) \o SimilaritiesStepOne(matrix, i + 1)

RECURSIVE Similarities(_, _)
\* lines 140-144: for i in range(0, len(all_texts), 2), with i counted from 0
Similarities(matrix, i) ==
    IF i >= Len(matrix) THEN <<>>
    ELSE (IF i + 1 < Len(matrix)
          THEN <<cosine_similarity(matrix[i + 1], matrix[i + 2])>>
          ELSE <<>>) \o Similarities(matrix, i + 2)

\* calculate_similarity_batch that scores every pair 0.0 when the fit fails
calculate_similarity_batch_lenient(c, vec, text_pairs, fault) ==
    IF text_pairs = <<>>
    THEN Outcome(c, vec, <<>>, NoFault, "empty_batch", NotFitted)
    ELSE LET pre == PreprocessAll(c, Flatten(text_pairs))
             ft  == fit_transform(get_vectorizer(vec), pre.all_texts, fault)
         IN IF ft.raised = NoFault
            THEN Outcome(pre.cache, ft.vectorizer, Similarities(ft.matrix, 0),
                         NoFault, "vector", NoFault)
            ELSE Outcome(pre.cache, ft.vectorizer,
                         [i \in 1..Len(text_pairs) |-> 0], NoFault, "fallback",
                         ft.raised)

calculate_similarity_batch(c, vec, text_pairs, fault) ==
    IF text_pairs = <<>>
    THEN Outcome(c, vec, <<>>, NoFault, "empty_batch", NotFitted)
    ELSE LET pre == PreprocessAll(c, Flatten(text_pairs))
             ft  == fit_transform(get_vectorizer(vec), pre.all_texts, fault)
         IN IF ft.raised = NoFault
            THEN Outcome(pre.cache, ft.vectorizer, Similarities(ft.matrix, 0),
                         NoFault, "vector", NoFault)
            ELSE Outcome(pre.cache, ft.vectorizer, <<>>, ft.raised, "raised",
                         ft.raised)

-----------------------------------------------------------------------------
(* The record of one call, as its caller sees it *)

\* refit: the call fitted a vectorizer that earlier calls had fitted otherwise
Call(op, args, out, before) ==
    [op |-> op, args |-> args, ret |-> out.ret, raised |-> out.raised,
     path |-> out.path, fitted |-> out.fitted, fit_error |-> out.fit_error,
     refit |-> before.fitted /\ out.vectorizer # before]

Last == calls[Len(calls)]

NoFiles == [p \in {} |-> <<>>]

-----------------------------------------------------------------------------
(* SpecPair: a fresh process scores one pair of texts, then the same pair   *)
(* failures the environment can add are part of SpecFault.                  *)
(* failures the environment can add are part of SpecFault.                      *)

InitPair ==
    /\ cache = <<>>
    /\ vectorizer = NoVectorizer
    /\ files = NoFiles
    /\ calls = <<>>
    /\ script \in [a : Texts, b : Texts]
    /\ pc = "start"

\* calculate_similarity(x, y) as the next call of the process
Score(x, y) ==
    \E out \in {calculate_similarity(cache, vectorizer, x, y, NoFault)} :
        /\ cache' = out.cache
        /\ vectorizer' = out.vectorizer
        /\ calls' = Append(calls, Call("calculate_similarity", <<x, y>>,
                                       out, vectorizer))

\* calculate_similarity(a, b)
PairFirst ==
    /\ pc = "start"
    /\ Score(script.a, script.b)
    /\ pc' = "first"
    /\ UNCHANGED <<files, script>>

\* calculate_similarity(b, a)
PairSwapped ==
    /\ pc = "first"
    /\ Score(script.b, script.a)
    /\ pc' = "done"
    /\ UNCHANGED <<files, script>>

NextPair == PairFirst \/ PairSwapped

SpecPair == InitPair /\ [][NextPair]_vars

-----------------------------------------------------------------------------
(* The documents of the batch, history and command-line specifications *)

DocList ==
    << <<"a", "b", " ", "b", "a">>,      \* "ab ba": two terms
       <<" ", "a", "b", " ">>,           \* " ab ":  one term, white space around
       <<"a", " ", "a">>,                \* "a a":   two words, no term
       <<"a">>,                          \* "a":     one word, no term
       <<>>,                             \* "":      empty
       <<"b", "a">>,                     \* "ba":    one term
       <<" ">> >>                        \* " ":     white space only

Docs == {DocList[i] : i \in 1..Min(NumDocs, Len(DocList))}

DocPairs == Docs \X Docs

Batches == UNION {[1..n -> DocPairs] : n \in 0..MaxPairs}

\* the batches of the history specification: one pair, any number of times
RepeatBatches == {b \in Batches : \A i \in 1..Len(b) : b[i] = b[1]}

-----------------------------------------------------------------------------
(* SpecBatch: a fresh process makes one calculate_similarity_batch call *)

InitBatch ==
    /\ cache = <<>>
    /\ vectorizer = NoVectorizer
    /\ files = NoFiles
    /\ calls = <<>>
    /\ script \in [text_pairs : Batches]
    /\ pc = "start"

\* calculate_similarity_batch(text_pairs) as the next call of the process
ScoreBatch(text_pairs) ==
    \E fault \in Faults :
        \E out \in {calculate_similarity_batch(cache, vectorizer, text_pairs, fault)} :
            /\ cache' = out.cache
            /\ vectorizer' = out.vectorizer
            /\ calls' = Append(calls, Call("calculate_similarity_batch",
                                           text_pairs, out, vectorizer))

BatchCall ==
    /\ pc = "start"
    /\ ScoreBatch(script.text_pairs)
    /\ pc' = "done"
    /\ UNCHANGED <<files, script>>

NextBatch == BatchCall

SpecBatch == InitBatch /\ [][NextBatch]_vars

-----------------------------------------------------------------------------
(* Spec: one process and any sequence of scoring calls, single and batch,   *)
(* all on the one global vectorizer and the one cache.  calls keeps the     *)
(* last call only.  No fit fails for a reason other than its documents.     *)

Init ==
    /\ cache = <<>>
    /\ vectorizer = NoVectorizer
    /\ files = NoFiles
    /\ calls = <<>>
    /\ script = [history |-> "scoring calls"]
    /\ pc = "running"

\* calculate_similarity(original_text, copied_text)
CalculateSimilarity ==
    \E p \in DocPairs :
        \E out \in {calculate_similarity(cache, vectorizer, p[1], p[2], NoFault)} :
            /\ cache' = out.cache
            /\ vectorizer' = out.vectorizer
            /\ calls' = <<Call("calculate_similarity", p, out, vectorizer)>>
            /\ UNCHANGED <<files, script, pc>>

\* calculate_similarity_batch(text_pairs)
CalculateSimilarityBatch ==
    \E text_pairs \in RepeatBatches :
        \E out \in {calculate_similarity_batch(cache, vectorizer, text_pairs,
                                               NoFault)} :
            /\ cache' = out.cache
            /\ vectorizer' = out.vectorizer
            /\ calls' = <<Call("calculate_similarity_batch", text_pairs, out,
                               vectorizer)>>
            /\ UNCHANGED <<files, script, pc>>

Next == CalculateSimilarity \/ CalculateSimilarityBatch

Spec == Init /\ [][Next]_vars

-----------------------------------------------------------------------------
(* SpecFault: a fresh process scores a pair of documents, then the same     *)
(* pair again, and each fit may fail for a reason of the environment.       *)

InitFault ==
    /\ cache = <<>>
    /\ vectorizer = NoVectorizer
    /\ files = NoFiles
    /\ calls = <<>>
    /\ script \in [a : Docs, b : Docs]
    /\ pc = "start"

\* calculate_similarity(a, b), the fit failing or not
FaultyScore ==
    /\ pc \in {"start", "first"}
    /\ \E fault \in Faults :
        \E out \in {calculate_similarity(cache, vectorizer, script.a, script.b,
                                         fault)} :
            /\ cache' = out.cache
            /\ vectorizer' = out.vectorizer
            /\ calls' = Append(calls, Call("calculate_similarity",
                                           <<script.a, script.b>>, out, vectorizer))
    /\ pc' = IF pc = "start" THEN "first" ELSE "done"
    /\ UNCHANGED <<files, script>>

NextFault == FaultyScore

SpecFault == InitFault /\ [][NextFault]_vars

-----------------------------------------------------------------------------
(* SpecCache: a fresh process makes up to MaxCalls preprocess_text calls;   *)
(* calls keeps all of them.                                                 *)

InitCache ==
    /\ cache = <<>>
    /\ vectorizer = NoVectorizer
    /\ files = NoFiles
    /\ calls = <<>>
    /\ script = [history |-> "preprocess_text only"]
    /\ pc = "running"

CachePreprocess ==
    /\ Len(calls) < MaxCalls
    /\ \E text \in Docs :
        \E out \in {preprocess_text(cache, text)} :
            /\ cache' = out.cache
            /\ calls' = Append(calls, [op |-> "preprocess_text", args |-> <<text>>,
                                       ret |-> out.ret,
                                       path |-> IF out.hit THEN "hit" ELSE "miss"])
    /\ UNCHANGED <<vectorizer, files, script, pc>>

NextCache == CachePreprocess

SpecCache == InitCache /\ [][NextCache]_vars

-----------------------------------------------------------------------------
(* The plain pipeline of src/main.py: no cache, a new vectorizer per call,  *)
(* no single-word rule and no try block.                                    *)

plain_calculate_similarity(original_text, copied_text, fault) ==
    LET original_processed == plain_preprocess_text(original_text)
        copied_processed   == plain_preprocess_text(copied_text)
        ft == fit_transform(NewVectorizer,
                            <<original_processed, copied_processed>>, fault)
    IN
    IF original_processed = <<>> /\ copied_processed = <<>>
    THEN [ret |-> 1000, raised |-> NoFault]
    ELSE IF original_processed = <<>> \/ copied_processed = <<>>
    THEN [ret |-> 0, raised |-> NoFault]
    ELSE IF ft.raised = NoFault
    THEN [ret |-> cosine_similarity(ft.matrix[1], ft.matrix[2]), raised |-> NoFault]
    ELSE [ret |-> NoScore, raised |-> ft.raised]

-----------------------------------------------------------------------------
(* Files and the two command-line entry points *)

\* the content of a path that does not exist
Missing == <<"ENOENT">>

RECURSIVE LStrip(_)
LStrip(s) == IF s # <<>> /\ IsSpace(Head(s)) THEN LStrip(Tail(s)) ELSE s

RECURSIVE RStrip(_)
RStrip(s) ==
    IF s # <<>> /\ IsSpace(s[Len(s)]) THEN RStrip(SubSeq(s, 1, Len(s) - 1)) ELSE s

\* str.strip()
Strip(s) == RStrip(LStrip(s))

\* read_file: the stripped content, or None after printing why
read_file(fs, file_path) ==
    IF file_path \notin DOMAIN fs \/ fs[file_path] = Missing
    THEN None
    ELSE Strip(fs[file_path])

\* round(similarity, 2) in hundredths.  A score is kept truncated to
\* thousandths and no score of the model is an exact tie, so a last digit of
\* 5 or more rounds up.
Round2(similarity) == (similarity + 5) \div 10

Digit(d) == <<"0", "1", "2", "3", "4", "5", "6", "7", "8", "9">>[d + 1]

\* str(result) of a float with at most two decimals: "1.0", "0.5", "0.58"
Str(result) ==
    <<Digit(result \div 100), ".", Digit((result % 100) \div 10)>>
        \o (IF result % 10 = 0 THEN <<>> ELSE <<Digit(result % 10)>>)

\* write_result: the file system afterwards
write_result(fs, output_path, similarity) ==
    [p \in DOMAIN fs \cup {output_path} |->
        IF p = output_path THEN Str(Round2(similarity)) ELSE fs[p]]

\* what a run of main did: the usage message, the paths read, the message
\* about a failed read, whether a score was computed, whether write_result
\* ran, and the exception that ended the run
Run(c, vec, fs, usage, reads, read_failed, computed, wrote, raised) ==
    [cache |-> c, vectorizer |-> vec, files |-> fs, usage |-> usage,
     reads |-> reads, read_failed |-> read_failed, computed |-> computed,
     wrote |-> wrote, raised |-> raised]

\* main of src/3223004469/main.py; argv[1] is sys.argv[0]
main(c, vec, fs, argv, fault) ==
    IF Len(argv) # 4
    THEN Run(c, vec, fs, TRUE, <<>>, FALSE, FALSE, FALSE, NoFault)
    ELSE LET original_path == argv[2]
             copied_path   == argv[3]
             output_path   == argv[4]
             original_text == read_file(fs, original_path)
             copied_text   == read_file(fs, copied_path)
             reads == <<original_path, copied_path>>
             out == calculate_similarity(c, vec, original_text, copied_text, fault)
         IN IF original_text = None \/ copied_text = None
            THEN Run(c, vec, fs, FALSE, reads, TRUE, FALSE, FALSE, NoFault)
            ELSE IF out.raised # NoFault
            THEN Run(out.cache, out.vectorizer, fs, FALSE, reads, FALSE, FALSE,
                     FALSE, out.raised)
            ELSE Run(out.cache, out.vectorizer,
                     write_result(fs, output_path, out.ret),
                     FALSE, reads, FALSE, TRUE, TRUE, NoFault)

\* main of src/main.py: neither check is followed by a return
plain_main(c, vec, fs, argv, fault) ==
    LET usage == Len(argv) # 4 IN
    IF Len(argv) < 4
    THEN Run(c, vec, fs, usage, <<>>, FALSE, FALSE, FALSE, "IndexError")
    ELSE LET original_path == argv[2]
             copied_path   == argv[3]
             output_path   == argv[4]
             original_text == read_file(fs, original_path)
             copied_text   == read_file(fs, copied_path)
             reads == <<original_path, copied_path>>
             read_failed == original_text = None \/ copied_text = None
             out == plain_calculate_similarity(original_text, copied_text, fault)
         IN IF out.raised # NoFault
            THEN Run(c, vec, fs, usage, reads, read_failed, FALSE, FALSE,
                     out.raised)
            ELSE Run(c, vec, write_result(fs, output_path, out.ret),
                     usage, reads, read_failed, TRUE, TRUE, NoFault)

-----------------------------------------------------------------------------
(* SpecCli: one run of either program on a command line of 1..MaxArgc       *)
(* entries, the two input files holding any document or missing.            *)

Arg(i) == IF i = 1 THEN "main.py"
          ELSE IF i = 2 THEN "orig.txt"
          ELSE IF i = 3 THEN "copy.txt"
          ELSE IF i = 4 THEN "ans.txt"
          ELSE "extra"

Contents == Docs \cup {Missing}

InitCli ==
    /\ cache = <<>>
    /\ vectorizer = NoVectorizer
    /\ \E o \in Contents, k \in Contents :
           files = [p \in {"orig.txt", "copy.txt"} |->
                       IF p = "orig.txt" THEN o ELSE k]
    /\ calls = <<>>
    /\ script \in [argv : {[i \in 1..n |-> Arg(i)] : n \in 1..MaxArgc}]
    /\ pc = "start"

Record(op, argv, run) ==
    [op |-> op, args |-> argv, usage |-> run.usage, reads |-> run.reads,
     read_failed |-> run.read_failed, computed |-> run.computed,
     wrote |-> run.wrote, raised |-> run.raised]

\* python src/3223004469/main.py ...
Main ==
    /\ pc = "start"
    /\ \E fault \in Faults :
        \E run \in {main(cache, vectorizer, files, script.argv, fault)} :
            /\ cache' = run.cache
            /\ vectorizer' = run.vectorizer
            /\ files' = run.files
            /\ calls' = <<Record("main", script.argv, run)>>
    /\ pc' = "exited"
    /\ UNCHANGED script

\* python src/main.py ...
PlainMain ==
    /\ pc = "start"
    /\ \E fault \in Faults :
        \E run \in {plain_main(cache, vectorizer, files, script.argv, fault)} :
            /\ cache' = run.cache
            /\ vectorizer' = run.vectorizer
            /\ files' = run.files
            /\ calls' = <<Record("plain_main", script.argv, run)>>
    /\ pc' = "exited"
    /\ UNCHANGED script

NextCli == Main \/ PlainMain

SpecCli == InitCli /\ [][NextCli]_vars

-----------------------------------------------------------------------------
(* Properties.  The conditions of a property are stated on the arguments of *)
(* a call, the conclusion on what the call did.                             *)

\* the text has no character that is not white space: it has no word
NoWords(text) == \A i \in 1..Len(text) : IsSpace(text[i])

\* the words of a text, as the code gets them
WordsOf(text) == Split(plain_preprocess_text(text))

Abs(x) == IF x < 0 THEN 0 - x ELSE x

\* C1: a call with one empty text and one text that is not empty returns 0.0,
\* and a call where exactly one side has no word returns 0.0 without fitting
\* the vectorizer.
C1_OneEmptyRule ==
    \A i \in 1..Len(calls) :
        LET A == calls[i].args[1]
            B == calls[i].args[2]
        IN /\ ((A = <<>>) # (B = <<>>)) =>
                  calls[i].ret = 0 /\ calls[i].raised = NoFault
           /\ (NoWords(A) # NoWords(B)) =>
                  calls[i].ret = 0 /\ calls[i].raised = NoFault /\ ~calls[i].fitted

\* a text of several words against "", and "" against it
C1_Witness ==
    /\ pc = "done"
    /\ Len(WordsOf(script.a)) >= 2 /\ script.b = <<>>
    /\ calls[1].path = "one_empty" /\ calls[2].path = "one_empty"
    /\ calls[1].ret = 0 /\ calls[2].ret = 0

\* C2: a text of two or more words scored against itself gives 1.0 within
\* 0.01, on the vector path and on the character-ratio fallback.
C2_Identity ==
    \A i \in 1..Len(calls) :
        (calls[i].args[1] = calls[i].args[2] /\ Len(WordsOf(calls[i].args[1])) >= 2)
            => /\ calls[i].raised = NoFault
               /\ calls[i].path \in {"vector", "fallback"}
               /\ Abs(calls[i].ret - 1000) <= 10

\* a text with two different terms against itself, on the vector path
C2_Witness ==
    /\ pc = "done"
    /\ script.a = script.b
    /\ calls[2].path = "vector"
    /\ Cardinality(vectorizer.vocabulary) >= 2
    /\ calls[2].ret = 1000

\* C3: when both texts have exactly one word the vectorizer is not fitted,
\* nothing is raised, and the score is 1.0 for equal words and else the
\* sequence ratio of the raw texts, a value in [0, 1].
C3_SingleTokenRule ==
    \A i \in 1..Len(calls) :
        LET A == calls[i].args[1]
            B == calls[i].args[2]
        IN (Len(WordsOf(A)) = 1 /\ Len(WordsOf(B)) = 1)
            => /\ ~calls[i].fitted
               /\ calls[i].raised = NoFault
               /\ calls[i].ret = IF WordsOf(A)[1] = WordsOf(B)[1]
                                 THEN 1000 ELSE ratio(A, B)
               /\ calls[i].ret \in 0..1000

\* two different words, one of them with white space around it, that share
\* some characters
C3_Witness ==
    /\ pc = "done"
    /\ calls[1].path = "single_ratio"
    /\ calls[1].ret \notin {0, 1000}
    /\ WordsOf(script.a) # <<script.a>>
    /\ vectorizer = NoVectorizer

\* C7: the two orders of a pair give scores less than one thousandth apart.
C7_Symmetry ==
    pc = "done" => Abs(calls[1].ret - calls[2].ret) < 1

\* C4: when the fit fails for an empty vocabulary the call returns the
\* sequence ratio of the raw texts; when it fails for any other reason the
\* call raises that failure and returns no score.
C4_DegenerateVocabularyFallback ==
    \A i \in 1..Len(calls) :
        /\ calls[i].fit_error = EmptyVocabulary =>
               /\ calls[i].raised = NoFault
               /\ calls[i].ret = ratio(calls[i].args[1], calls[i].args[2])
        /\ calls[i].fit_error \in {OtherValueError, OtherError} =>
               /\ calls[i].raised = calls[i].fit_error
               /\ calls[i].ret = NoScore

\* one call of the pair fell back to a ratio strictly between 0 and 1, the
\* other raised what its fit raised
C4_Witness ==
    /\ pc = "done"
    /\ calls[1].fit_error = EmptyVocabulary
    /\ calls[1].ret \notin {0, 1000}
    /\ calls[2].fit_error = OtherValueError
    /\ calls[2].raised = OtherValueError

\* the documents handed to the vectorizer for a batch: 2i-1 is the original
\* and 2i the copy of pair i
BatchDocs(text_pairs) ==
    [k \in 1..(2 * Len(text_pairs)) |->
        plain_preprocess_text(text_pairs[(k + 1) \div 2][2 - (k % 2)])]

NoTerms(text_pairs) ==
    \A k \in 1..(2 * Len(text_pairs)) : Analyze(BatchDocs(text_pairs)[k]) = <<>>

\* C5 as claimed: an empty batch, and a batch none of whose documents has a
\* term, end in an error and return no score.
C5_BatchFailure ==
    \A i \in 1..Len(calls) :
        NoTerms(calls[i].args)
            => calls[i].raised # NoFault /\ calls[i].ret = <<>>

\* C5 as amended: a batch that is not empty and has no term in any document
\* ends in the error of the fit and returns no score; the empty batch returns
\* the empty list without an error and without a fit.
C5_BatchFailureAmended ==
    \A i \in 1..Len(calls) :
        /\ (calls[i].args # <<>> /\ NoTerms(calls[i].args)) =>
               /\ calls[i].raised # NoFault
               /\ calls[i].raised = calls[i].fit_error
               /\ calls[i].ret = <<>>
        /\ calls[i].args = <<>> =>
               /\ calls[i].raised = NoFault
               /\ calls[i].ret = <<>>
               /\ ~calls[i].fitted

\* a batch of two pairs without any term, ended by the empty vocabulary
C5_Witness ==
    /\ pc = "done"
    /\ Len(Last.args) = 2
    /\ NoTerms(Last.args)
    /\ Last.raised = EmptyVocabulary
    /\ vectorizer = NewVectorizer

\* the rows of the one fit over all the documents of the batch
BatchRows(text_pairs) ==
    Transform(Fit(NewVectorizer, AnalyzeAll(BatchDocs(text_pairs))),
              AnalyzeAll(BatchDocs(text_pairs)))

\* C6: a batch call that returns gives one score per pair, in the order of
\* the pairs, score i being the cosine of rows 2i-1 and 2i of the one fit.
C6_BatchShapeAndOrder ==
    \A i \in 1..Len(calls) :
        calls[i].raised = NoFault =>
            /\ Len(calls[i].ret) = Len(calls[i].args)
            /\ \A k \in 1..Len(calls[i].args) :
                   calls[i].ret[k] =
                       cosine_similarity(BatchRows(calls[i].args)[2 * k - 1],
                                         BatchRows(calls[i].args)[2 * k])

\* two pairs with two different scores, the first strictly between 0 and 1
C6_Witness ==
    /\ pc = "done"
    /\ Last.raised = NoFault
    /\ Len(Last.ret) = 2
    /\ Last.ret[1] \notin {0, 1000}
    /\ Last.ret[2] # Last.ret[1]

\* C8: a command line that does not have exactly three arguments gets the
\* usage message and nothing else: no file is read, no score computed, no
\* output written.
C8_ArgumentCheck ==
    \A i \in 1..Len(calls) :
        Len(calls[i].args) # 4 =>
            /\ calls[i].usage
            /\ calls[i].reads = <<>>
            /\ ~calls[i].computed
            /\ ~calls[i].wrote
            /\ "ans.txt" \notin DOMAIN files

\* C9: every preprocess_text call returns what the uncached segmentation
\* returns, and the cache never holds more than maxsize entries.
C9_CacheTransparency ==
    /\ \A i \in 1..Len(calls) :
           calls[i].ret = plain_preprocess_text(calls[i].args[1])
    /\ Len(cache) <= maxsize

\* a text was inserted, evicted by later misses, asked for again and inserted
\* again, with a hit somewhere in the run and the cache full
C9_Witness ==
    /\ Len(cache) = maxsize
    /\ \E i, k \in 1..Len(calls) :
           /\ i < k
           /\ calls[i].args = calls[k].args
           /\ calls[i].path = "miss"
           /\ calls[k].path = "miss"
           /\ calls[k].ret # <<>>
    /\ \E j \in 1..Len(calls) : calls[j].path = "hit"

\* the score of a pair as the first call of a fresh process
FreshScore(a, b) == calculate_similarity(<<>>, NoVectorizer, a, b, NoFault).ret

\* C10: whatever calls came before, a calculate_similarity call returns the
\* score a fresh process returns for the pair, and a fit leaves the
\* vocabulary and the weights of exactly the two documents of the call.
C10_HistoryIndependence ==
    \A i \in 1..Len(calls) :
        calls[i].op = "calculate_similarity" =>
            /\ calls[i].ret = FreshScore(calls[i].args[1], calls[i].args[2])
            /\ calls[i].fit_error = NoFault =>
                   vectorizer = Fit(NewVectorizer,
                                    AnalyzeAll(BatchDocs(<<calls[i].args>>)))

\* a call on the vector path, with a score strictly between 0 and 1, that
\* fitted a vectorizer earlier calls had fitted on other documents
C10_Witness ==
    /\ calls # <<>>
    /\ Last.op = "calculate_similarity"
    /\ Last.path = "vector"
    /\ Last.refit
    /\ Last.ret \notin {0, 1000}

=============================================================================
